---- MODULE Spec2Model ----
(***************************************************************************)
(* Model of prometheus-bme280-exporter (src/main.rs).                      *)
(*                                                                         *)
(* main opens the BME280 on DEFAULT_DEV_PATH, initialises it, binds a TCP  *)
(* listener and then accepts connections forever, spawning one tokio task  *)
(* per connection.  Every task serves its connection with a clone of       *)
(* TempServer, which shares the sensor behind Arc<Mutex<..>>.              *)
(* TempServer::call runs synchronously on the worker thread that polls the *)
(* task; with the multi-threaded runtime several calls run in parallel, so *)
(* every access of call/measure to the shared Mutex, sensor and gauges is  *)
(* one step of the task here.  A worker inside call polls nothing else:    *)
(* the readiness of the listener and of the connections is delivered only  *)
(* while an idle worker is parked on the I/O driver of the runtime.        *)
(***************************************************************************)
EXTENDS Integers, Sequences, FiniteSets, TLC

\* ---------------------------------------------------------------- bounds
\* number of connection tasks that can exist at the same time
NumTasks == 2
\* number of distinct readings the sensor can return
MaxReading == 2
\* largest number of worker threads of the runtime (one per core)
MaxWorkers == 2

Tasks == 1..NumTasks

\* ------------------------------------------------------------- constants
\* StatusCode::NOT_FOUND
NOT_FOUND == 404
\* default status of Response::builder()
OK == 200

\* --------------------------------------------------------------- requests
Methods == {"GET", "POST"}

\* request targets, as the characters of the URI: origin-form with and
\* without query and fragment, absolute-form with and without a path,
\* asterisk-form, and authority-form
Uris ==
  { <<"/", "m", "e", "t", "r", "i", "c", "s">>,
    <<"/", "m", "e", "t", "r", "i", "c", "s", "/">>,
    <<"/", "m", "e", "t", "r", "i", "c", "s", "?", "a">>,
    <<"/", "m", "e", "t", "r", "i", "c", "s", "#", "f">>,
    <<"/", "m", "e", "t", "r", "i", "c", "s", "?", "a", "#", "f">>,
    <<"h", "t", "t", "p", ":", "/", "/", "h", "/", "m", "e", "t", "r", "i",
      "c", "s">>,
    <<"h", "t", "t", "p", ":", "/", "/", "h", "/", "m", "e", "t", "r", "i",
      "c", "s", "/">>,
    <<"h", "t", "t", "p", ":", "/", "/", "h">>,
    <<"/">>,
    <<"*">>,
    <<"*", "x">> }

MetricsPath == <<"/", "m", "e", "t", "r", "i", "c", "s">>

\* the least index of s from position from on that holds one of chars,
\* Len(s) + 1 when there is none
FirstOf(s, from, chars) ==
  LET is == {i \in from..Len(s) : s[i] \in chars}
  IN IF is = {} THEN Len(s) + 1 ELSE CHOOSE i \in is : \A j \in is : i <= j

\* the index of the "://" that ends the scheme of an absolute-form target,
\* 0 for a target without scheme
SchemeEnd(uri) ==
  LET is == {i \in 1..Len(uri) - 2 :
               uri[i] = ":" /\ uri[i + 1] = "/" /\ uri[i + 2] = "/"}
  IN IF is = {} \/ uri[1] = "/" THEN 0
     ELSE CHOOSE i \in is : \A j \in is : i <= j

\* Uri::path() of the parsed target: scheme and authority of an
\* absolute-form target are not part of it, the fragment is dropped, the
\* path ends before the query, and an empty path reads "/"; the lone "*" is
\* its own path, and any other target without scheme that does not begin
\* with "/" is an authority and has the path ""
Path(uri) ==
  LET se == SchemeEnd(uri)
      start == IF se = 0 THEN 1
               ELSE FirstOf(uri, se + 3, {"/", "?", "#"})
      end == FirstOf(uri, start, {"?", "#"}) - 1
      p == SubSeq(uri, start, end)
  IN IF se = 0 /\ uri # <<>> /\ uri[1] # "/" /\ uri # <<"*">> THEN <<>>
     ELSE IF p = <<>> THEN <<"/">> ELSE p

\* what call reads of a request: req.method() and req.uri().path()
Requests == [method : Methods, uri : Uris]
NoReq == [method |-> "-", path |-> <<>>]
View(r) == [method |-> r.method, path |-> Path(r.uri)]

\* a route that forgets the method
IsMetricsRouteAnyMethod(method, path) == path = MetricsPath

\* the match of call: (&Method::GET, "/metrics")
IsMetricsRoute(method, path) == method = "GET" /\ path = MetricsPath

\* --------------------------------------------------------------- readings
\* Measurements returned by BME280::measure; the three fields of a reading
\* are distinct from each other and from the fields of every other reading
Readings ==
  { [temperature |-> v, pressure |-> 10 + v, humidity |-> 20 + v] :
      v \in 1..MaxReading }

NoResult == [kind |-> "none"]
OkResult(m) == [kind |-> "ok", m |-> m]
ErrResult == [kind |-> "err"]

\* f32 -> f64 (From<f32> for f64) is exact: the value is kept
IntoF64(x) == x

\* Gauge values after lazy_static registration: 0.0
InitGauges == [temperature |-> 0, pressure |-> 0, humidity |-> 0]

\* the gauges after the three set calls of one reading
GaugesOf(m) ==
  [temperature |-> IntoF64(m.temperature), pressure |-> IntoF64(m.pressure),
   humidity |-> IntoF64(m.humidity)]

\* prometheus::gather() followed by TextEncoder::encode: one family per
\* registered gauge, in the order of the metric names
Encode(g) ==
  << [name |-> "meter_humidity_percent", type |-> "gauge", value |-> g.humidity],
     [name |-> "meter_pressure_pascals", type |-> "gauge", value |-> g.pressure],
     [name |-> "meter_temperature_celsius", type |-> "gauge",
      value |-> g.temperature] >>

\* outputs of the future returned by call
NoOut == [kind |-> "none"]
OkOut(status, body) == [kind |-> "ok", status |-> status, body |-> body]
ErrOut == [kind |-> "err"]
\* the call panicked: no future was returned, the task unwinds
PanicOut == [kind |-> "panic"]

VARIABLES
  mainpc,     \* position of main
  sensorInit, \* the BME280 handle exists and init succeeded
  listener,   \* the TcpListener is bound
  lock,       \* holder of the Mutex guard, 0 when free
  hw,         \* tasks whose BME280::measure transaction is in flight
  gauges,     \* TEMPERATURE_GAUGE, PRESSURE_GAUGE, HUMIDITY_GAUGE
  pc,         \* position of every connection task
  conn,       \* the client's end of the task's connection is open
  req,        \* method and path of the request a task is handling
  result,     \* what self.measure() returned to the task
  out,        \* output of the future call returned
  reads,      \* hardware reads started for the task's current request
  wrote,      \* gauges the task has set for its current request
  solo,       \* the task whose scrape has met no other scrape, 0 if none
  lastRead,   \* result of the latest successful hardware read
  seen,       \* the readings successful hardware reads have returned
  workers,    \* number of worker threads of the runtime
  driver,     \* an idle worker is parked on the I/O driver
  ready       \* the listener's readiness has reached main, not yet used up

vars == <<mainpc, sensorInit, listener, lock, hw, gauges, pc, conn, req,
          result, out, reads, wrote, solo, lastRead, seen, workers, driver,
          ready>>

GaugeNames == {"temperature", "pressure", "humidity"}

\* positions of a task inside the GET /metrics arm of call
ScrapePcs == {"lock", "locked", "reading", "readend", "measured",
              "set_temperature", "set_pressure", "set_humidity", "encode"}

InScrape(t) == pc[t] \in ScrapePcs

\* the tasks a worker thread is polling: before call with the request
\* read, inside call, or between the return of call and the end of the poll
Running(p) == {t \in Tasks : p[t] \in ScrapePcs \cup {"polled", "ready"}}

\* some worker thread polls no task
IdleWorker(p) == Cardinality(Running(p)) < workers

Init ==
  /\ mainpc = "new"
  /\ sensorInit = FALSE
  /\ listener = FALSE
  /\ lock = 0
  /\ hw = {}
  /\ gauges = InitGauges
  /\ pc = [t \in Tasks |-> "none"]
  /\ conn = [t \in Tasks |-> FALSE]
  /\ req = [t \in Tasks |-> NoReq]
  /\ result = [t \in Tasks |-> NoResult]
  /\ out = [t \in Tasks |-> NoOut]
  /\ reads = [t \in Tasks |-> 0]
  /\ wrote = [t \in Tasks |-> {}]
  /\ solo = 0
  /\ lastRead = NoResult
  /\ seen = {}
  /\ workers \in 1..MaxWorkers
  /\ driver = TRUE
  /\ ready = FALSE

runtimeVars == <<workers, driver, ready>>
taskVars == <<pc, conn, req, result, out, reads, wrote, solo>>
sensorVars == <<lock, hw, lastRead, seen>>

\* ------------------------------------------------------------------ main
\* TempServer::new: I2cdev::new(DEFAULT_DEV_PATH)? , Ok or Err
NewOpen ==
  /\ mainpc = "new"
  /\ \E ok \in BOOLEAN : mainpc' = IF ok THEN "init" ELSE "err_open"
  /\ UNCHANGED <<sensorInit, listener, gauges>>
  /\ UNCHANGED taskVars /\ UNCHANGED sensorVars
  /\ UNCHANGED runtimeVars

\* a startup that ignores the result of init
AfterInitIgnored(ok) == "bind"

\* where main continues after bme280.init returned: the `?` of new and of
\* main return the error, Ok(TempServer) goes on to bind
AfterInit(ok) == IF ok THEN "bind" ELSE "err_init"

\* TempServer::new: bme280.init(&mut delay).map_err(..)? , then Ok(TempServer)
NewInit ==
  /\ mainpc = "init"
  /\ \E ok \in BOOLEAN :
       /\ mainpc' = AfterInit(ok)
       /\ sensorInit' = ok
  /\ UNCHANGED <<listener, gauges>>
  /\ UNCHANGED taskVars /\ UNCHANGED sensorVars
  /\ UNCHANGED runtimeVars

\* TcpListener::bind(addr).await?
Bind ==
  /\ mainpc = "bind"
  /\ \E ok \in BOOLEAN :
       /\ mainpc' = IF ok THEN "accept" ELSE "err_bind"
       /\ listener' = ok
  /\ UNCHANGED <<sensorInit, gauges>>
  /\ UNCHANGED taskVars /\ UNCHANGED sensorVars
  /\ UNCHANGED runtimeVars

\* listener.accept().await returns only after the readiness of the
\* listener has reached main: the I/O driver delivers it while an idle
\* worker is parked on the driver, and it stays with main until an accept
\* finds no connection pending
CanAccept == driver \/ ready

\* listener.accept().await? succeeded: server.clone(), tokio::task::spawn.
\* The spawned task wakes an idle worker, which finds the connection
\* without a request yet and parks on the I/O driver
Accept(t) ==
  /\ mainpc = "accept"
  /\ pc[t] = "none"
  /\ CanAccept
  /\ pc' = [pc EXCEPT ![t] = "idle"]
  /\ conn' = [conn EXCEPT ![t] = TRUE]
  /\ driver' = (driver \/ IdleWorker(pc))
  /\ ready' = (ready /\ ~driver')
  /\ UNCHANGED <<mainpc, sensorInit, listener, gauges, req, result, out,
                 reads, wrote, solo, workers>>
  /\ UNCHANGED sensorVars

\* listener.accept().await finds no connection pending: the readiness is
\* used up and main waits for the I/O driver
AcceptPending ==
  /\ mainpc = "accept"
  /\ ready
  /\ ready' = FALSE
  /\ UNCHANGED <<mainpc, sensorInit, listener, gauges, workers, driver>>
  /\ UNCHANGED taskVars /\ UNCHANGED sensorVars

\* listener.accept().await? failed: main returns the error, the listener is
\* dropped and the runtime shuts down: the worker parked on the I/O driver
\* leaves it and no worker parks there again
AcceptErr ==
  /\ mainpc = "accept"
  /\ CanAccept
  /\ mainpc' = "err_accept"
  /\ listener' = FALSE
  /\ ready' = FALSE
  /\ driver' = FALSE
  /\ UNCHANGED <<sensorInit, gauges, workers>>
  /\ UNCHANGED taskVars /\ UNCHANGED sensorVars

\* the state of a task is gone once its request is over
Forget(t) ==
  /\ req' = [req EXCEPT ![t] = NoReq]
  /\ result' = [result EXCEPT ![t] = NoResult]
  /\ out' = [out EXCEPT ![t] = NoOut]
  /\ reads' = [reads EXCEPT ![t] = 0]
  /\ wrote' = [wrote EXCEPT ![t] = {}]
  /\ solo' = IF solo = t THEN 0 ELSE solo

\* the worker that polled task t has no task left to poll when t leaves
\* it: it parks on the I/O driver, unless the runtime is shutting down
Parked(t) ==
  /\ driver' = (mainpc # "err_accept" /\ (driver \/ t \in Running(pc)))
  /\ ready' = (ready /\ ~driver')

\* what a worker that starts to poll a task leaves behind: the worker
\* that was parked on the I/O driver runs the task itself, and the driver
\* has a worker again only if the runtime woke another idle one (handoff);
\* the poll that delivered the request may have delivered the readiness of
\* the listener to main, too (cached)
Unparked(handoff, cached) ==
  /\ handoff => IdleWorker(pc')
  /\ cached => (~handoff /\ mainpc = "accept")
  /\ driver' = handoff
  /\ ready' = cached

\* runtime shutdown: a task is dropped when it is not being polled; a poll
\* that is running goes on, through call and to the end of the poll
Shutdown(t) ==
  /\ mainpc = "err_accept"
  /\ pc[t] \in {"idle", "ready"}
  /\ pc' = [pc EXCEPT ![t] = "none"]
  /\ conn' = [conn EXCEPT ![t] = FALSE]
  /\ Forget(t)
  /\ Parked(t)
  /\ UNCHANGED <<mainpc, sensorInit, listener, gauges, workers>>
  /\ UNCHANGED sensorVars

\* --------------------------------------------------- a connection task
\* the response of the catch-all arm of call
NotFoundResponse == OkOut(NOT_FOUND, <<>>)

\* the bytes of the next request reach the task through the I/O driver:
\* the worker that was parked there polls serve_connection, which reads
\* the request
PollConnection(t) ==
  /\ pc[t] = "idle"
  /\ conn[t]
  /\ driver
  /\ pc' = [pc EXCEPT ![t] = "polled"]
  /\ \E handoff, cached \in BOOLEAN : Unparked(handoff, cached)
  /\ UNCHANGED <<mainpc, sensorInit, listener, gauges, conn, req, result, out,
                 reads, wrote, solo, workers>>
  /\ UNCHANGED sensorVars

\* a call whose catch-all arm clears the gauges
CallNotFoundClears(t, r) ==
  /\ pc[t] = "polled"
  /\ req' = [req EXCEPT ![t] = View(r)]
  /\ IF IsMetricsRoute(View(r).method, View(r).path)
     THEN /\ pc' = [pc EXCEPT ![t] = "lock"]
          /\ solo' = IF \E w \in Tasks \ {t} : InScrape(w) THEN 0 ELSE t
          /\ out' = out
          /\ gauges' = gauges
     ELSE /\ pc' = [pc EXCEPT ![t] = "ready"]
          /\ out' = [out EXCEPT ![t] = OkOut(NOT_FOUND, <<>>)]
          /\ solo' = solo
          /\ gauges' = InitGauges
  /\ UNCHANGED <<mainpc, sensorInit, listener, conn, result, reads, wrote>>
  /\ UNCHANGED sensorVars
  /\ UNCHANGED runtimeVars

\* serve_connection has read the next request r of the connection and calls
\* TempServer::call, which matches (req.method(), req.uri().path()): the
\* GET /metrics arm goes on to self.measure(), every other request gets the
\* future of the 404 response.  A task whose poll is running does so after
\* main has returned, too, and when the client has gone meanwhile
Call(t, r) ==
  /\ pc[t] = "polled"
  /\ req' = [req EXCEPT ![t] = View(r)]
  /\ IF IsMetricsRoute(View(r).method, View(r).path)
     THEN /\ pc' = [pc EXCEPT ![t] = "lock"]
          /\ solo' = IF \E w \in Tasks \ {t} : InScrape(w) THEN 0 ELSE t
          /\ out' = out
     ELSE /\ pc' = [pc EXCEPT ![t] = "ready"]
          /\ out' = [out EXCEPT ![t] = NotFoundResponse]
          /\ solo' = solo
  /\ UNCHANGED <<mainpc, sensorInit, listener, gauges, conn, result, reads,
                 wrote>>
  /\ UNCHANGED sensorVars
  /\ UNCHANGED runtimeVars

\* a lock that never waits
CanLockAlways(t) == TRUE

\* Mutex::lock returns once no other thread holds the guard
CanLock(t) == lock = 0

\* measure: self.bme280.lock(); no thread panics while it holds the guard,
\* so the lock is never poisoned and lock() returns Ok
Lock(t) ==
  /\ pc[t] = "lock"
  /\ CanLock(t)
  /\ lock' = t
  /\ pc' = [pc EXCEPT ![t] = "locked"]
  /\ UNCHANGED <<mainpc, sensorInit, listener, gauges, conn, req, result, out,
                 reads, wrote, solo, hw, lastRead, seen>>
  /\ UNCHANGED runtimeVars

\* measure: guard.measure(&mut delay) starts the transaction on the bus
HwStart(t) ==
  /\ pc[t] = "locked"
  /\ hw' = hw \cup {t}
  /\ reads' = [reads EXCEPT ![t] = @ + 1]
  /\ pc' = [pc EXCEPT ![t] = "reading"]
  /\ UNCHANGED <<mainpc, sensorInit, listener, gauges, conn, req, result, out,
                 wrote, solo, lock, lastRead, seen>>
  /\ UNCHANGED runtimeVars

\* what BME280::measure can return
HwOutcomes == {OkResult(m) : m \in Readings} \cup {ErrResult}

\* measure: the transaction ends with Ok(measurements) or Err(e)
HwEnd(t) ==
  /\ pc[t] = "reading"
  /\ \E r \in HwOutcomes :
       /\ result' = [result EXCEPT ![t] = r]
       /\ lastRead' = IF r.kind = "ok" THEN r ELSE lastRead
       /\ seen' = IF r.kind = "ok" THEN seen \cup {r.m} ELSE seen
  /\ hw' = hw \ {t}
  /\ pc' = [pc EXCEPT ![t] = "readend"]
  /\ UNCHANGED <<mainpc, sensorInit, listener, gauges, conn, req, out, reads, wrote,
                 solo, lock>>
  /\ UNCHANGED runtimeVars

\* a guard that is leaked when the read failed
ReleasedUnlessErr(t) == IF result[t].kind = "err" THEN t ELSE 0

\* a guard that outlives measure
ReleasedLate(t) == t

\* the holder of the Mutex after the guard of task t is dropped
Released(t) == 0

\* measure: the temporary MutexGuard is dropped at the end of the let
\* statement, on the Ok path and on the early return of `?` alike
Unlock(t) ==
  /\ pc[t] = "readend"
  /\ lock' = Released(t)
  /\ pc' = [pc EXCEPT ![t] = "measured"]
  /\ UNCHANGED <<mainpc, sensorInit, listener, gauges, conn, req, result, out,
                 reads, wrote, solo, hw, lastRead, seen>>
  /\ UNCHANGED runtimeVars

\* the output of call when self.measure() is an Err:
\* Box::pin(async { Err(anyhow!("unable to measure")) })
MeasureFailedOut == ErrOut

\* a call without the early return: a failed read goes on to encode
AfterMeasureIgnoreErr(r) ==
  IF r.kind = "err" THEN "encode" ELSE "set_temperature"

\* a call that measures again when the read failed
AfterMeasureRetry(r) == IF r.kind = "err" THEN "lock" ELSE "set_temperature"

\* where call continues after self.measure() returned r
AfterMeasure(r) == IF r.kind = "err" THEN "ready" ELSE "set_temperature"

\* a failure path that resets the gauges to their defaults
CheckMeasureReset(t) ==
  /\ pc[t] = "measured"
  /\ pc' = [pc EXCEPT ![t] = AfterMeasure(result[t])]
  /\ out' = IF result[t].kind = "err"
            THEN [out EXCEPT ![t] = MeasureFailedOut]
            ELSE out
  /\ gauges' = IF result[t].kind = "err" THEN InitGauges ELSE gauges
  /\ UNCHANGED <<mainpc, sensorInit, listener, conn, req, result, reads, wrote,
                 solo>>
  /\ UNCHANGED sensorVars
  /\ UNCHANGED runtimeVars

\* call: if measurements.is_err() { return ... }; measurements.unwrap()
CheckMeasure(t) ==
  /\ pc[t] = "measured"
  /\ pc' = [pc EXCEPT ![t] = AfterMeasure(result[t])]
  /\ out' = IF result[t].kind = "err"
            THEN [out EXCEPT ![t] = MeasureFailedOut]
            ELSE out
  /\ UNCHANGED <<mainpc, sensorInit, listener, gauges, conn, req, result, reads, wrote,
                 solo>>
  /\ UNCHANGED sensorVars
  /\ UNCHANGED runtimeVars

\* a call that forgets to set the temperature
SetTemperatureSkipped(t) ==
  /\ pc[t] = "set_temperature"
  /\ pc' = [pc EXCEPT ![t] = "set_pressure"]
  /\ UNCHANGED <<mainpc, sensorInit, listener, gauges, conn, req, result,
                 out, reads, wrote, solo>>
  /\ UNCHANGED sensorVars
  /\ UNCHANGED runtimeVars

\* TEMPERATURE_GAUGE.set(measurements.temperature.into())
SetTemperature(t) ==
  /\ pc[t] = "set_temperature"
  /\ gauges' = [gauges EXCEPT !.temperature = IntoF64(result[t].m.temperature)]
  /\ wrote' = [wrote EXCEPT ![t] = @ \cup {"temperature"}]
  /\ pc' = [pc EXCEPT ![t] = "set_pressure"]
  /\ UNCHANGED <<mainpc, sensorInit, listener, conn, req, result, out, reads, solo>>
  /\ UNCHANGED sensorVars
  /\ UNCHANGED runtimeVars

\* PRESSURE_GAUGE.set(measurements.pressure.into())
SetPressure(t) ==
  /\ pc[t] = "set_pressure"
  /\ gauges' = [gauges EXCEPT !.pressure = IntoF64(result[t].m.pressure)]
  /\ wrote' = [wrote EXCEPT ![t] = @ \cup {"pressure"}]
  /\ pc' = [pc EXCEPT ![t] = "set_humidity"]
  /\ UNCHANGED <<mainpc, sensorInit, listener, conn, req, result, out, reads, solo>>
  /\ UNCHANGED sensorVars
  /\ UNCHANGED runtimeVars

\* a humidity that is written to the pressure gauge
SetHumidityWrongGauge(t) ==
  /\ pc[t] = "set_humidity"
  /\ gauges' = [gauges EXCEPT !.pressure = IntoF64(result[t].m.humidity)]
  /\ wrote' = [wrote EXCEPT ![t] = @ \cup {"pressure"}]
  /\ pc' = [pc EXCEPT ![t] = "encode"]
  /\ UNCHANGED <<mainpc, sensorInit, listener, conn, req, result, out, reads, solo>>
  /\ UNCHANGED sensorVars
  /\ UNCHANGED runtimeVars

\* HUMIDITY_GAUGE.set(measurements.humidity.into())
SetHumidity(t) ==
  /\ pc[t] = "set_humidity"
  /\ gauges' = [gauges EXCEPT !.humidity = IntoF64(result[t].m.humidity)]
  /\ wrote' = [wrote EXCEPT ![t] = @ \cup {"humidity"}]
  /\ pc' = [pc EXCEPT ![t] = "encode"]
  /\ UNCHANGED <<mainpc, sensorInit, listener, conn, req, result, out, reads, solo>>
  /\ UNCHANGED sensorVars
  /\ UNCHANGED runtimeVars

\* what call makes of the Result of encoder.encode(..): Ok(()) leaves the
\* text in buffer, which becomes the body of the default (200) response;
\* Err(e) panics in .expect("encoding failed")
Encoded(ok, g) == IF ok THEN OkOut(OK, Encode(g)) ELSE PanicOut

\* call: gather, encode into buffer, Ok(Response::builder().body(buffer));
\* Encoder::encode returns a Result, Ok or Err
EncodeBody(t) ==
  /\ pc[t] = "encode"
  /\ \E ok \in BOOLEAN : out' = [out EXCEPT ![t] = Encoded(ok, gauges)]
  /\ pc' = [pc EXCEPT ![t] = "ready"]
  /\ UNCHANGED <<mainpc, sensorInit, listener, gauges, conn, req, result, reads, wrote,
                 solo>>
  /\ UNCHANGED sensorVars
  /\ UNCHANGED runtimeVars

\* serve_connection with the output of the future: an Ok response is
\* written and the connection waits for its next request; an Err ends
\* serve_connection with the error, which the task prints before it ends;
\* a panic of call unwinds the task, which ends without a response; when
\* the client has gone the response is discarded and the task ends
Respond(t) ==
  /\ pc[t] = "ready"
  /\ pc' = [pc EXCEPT ![t] =
             IF out[t].kind = "ok" /\ conn[t] THEN "idle" ELSE "none"]
  /\ conn' = [conn EXCEPT ![t] = out[t].kind = "ok" /\ conn[t]]
  /\ Forget(t)
  /\ Parked(t)
  /\ UNCHANGED <<mainpc, sensorInit, listener, gauges, workers>>
  /\ UNCHANGED sensorVars

\* a disconnect that drops the task where it stands
DisconnectCancels(t) ==
  /\ pc[t] # "none"
  /\ conn[t]
  /\ conn' = [conn EXCEPT ![t] = FALSE]
  /\ pc' = [pc EXCEPT ![t] = "none"]
  /\ Forget(t)
  /\ Parked(t)
  /\ UNCHANGED <<mainpc, sensorInit, listener, gauges, workers>>
  /\ UNCHANGED sensorVars

\* the client closes its end of the connection; call has no await, so a
\* task inside call does not see it before call has returned
Disconnect(t) ==
  /\ pc[t] # "none"
  /\ conn[t]
  /\ conn' = [conn EXCEPT ![t] = FALSE]
  /\ UNCHANGED <<mainpc, sensorInit, listener, gauges, pc, req, result, out,
                 reads, wrote, solo>>
  /\ UNCHANGED sensorVars
  /\ UNCHANGED runtimeVars

\* serve_connection finds the connection closed while it waits for the
\* next request (the I/O driver delivers it) and returns; the task ends
Closed(t) ==
  /\ pc[t] = "idle"
  /\ ~conn[t]
  /\ driver
  /\ pc' = [pc EXCEPT ![t] = "none"]
  /\ UNCHANGED <<mainpc, sensorInit, listener, gauges, conn, req, result, out,
                 reads, wrote, solo>>
  /\ UNCHANGED sensorVars
  /\ UNCHANGED runtimeVars

TaskStep(t) ==
  \/ Accept(t)
  \/ Shutdown(t)
  \/ PollConnection(t)
  \/ \E r \in Requests : Call(t, r)
  \/ Lock(t)
  \/ HwStart(t)
  \/ HwEnd(t)
  \/ Unlock(t)
  \/ CheckMeasure(t)
  \/ SetTemperature(t)
  \/ SetPressure(t)
  \/ SetHumidity(t)
  \/ EncodeBody(t)
  \/ Respond(t)
  \/ Disconnect(t)
  \/ Closed(t)

Next ==
  \/ NewOpen
  \/ NewInit
  \/ Bind
  \/ AcceptPending
  \/ AcceptErr
  \/ \E t \in Tasks : TaskStep(t)

Spec == Init /\ [][Next]_vars

\* every step of call and measure is taken once it can be: a thread inside
\* call keeps running and a hardware read ends; a thread blocked in
\* Mutex::lock gets the lock when the lock stays free, and nothing more:
\* the Mutex is not fair, another thread can take the free lock first
Fairness ==
  \A t \in Tasks :
    /\ WF_vars(Lock(t))
    /\ WF_vars(HwStart(t))
    /\ WF_vars(HwEnd(t))
    /\ WF_vars(Unlock(t))
    /\ WF_vars(CheckMeasure(t))
    /\ WF_vars(SetTemperature(t))
    /\ WF_vars(SetPressure(t))
    /\ WF_vars(SetHumidity(t))
    /\ WF_vars(EncodeBody(t))

FairSpec == Spec /\ Fairness

TypeOK ==
  /\ mainpc \in {"new", "init", "bind", "accept", "err_open", "err_init",
                 "err_bind", "err_accept"}
  /\ sensorInit \in BOOLEAN
  /\ listener \in BOOLEAN
  /\ lock \in {0} \cup Tasks
  /\ hw \subseteq Tasks
  /\ pc \in [Tasks -> {"none", "idle", "polled", "ready"} \cup ScrapePcs]
  /\ conn \in [Tasks -> BOOLEAN]
  /\ \A t \in Tasks : req[t] \in {View(r) : r \in Requests} \cup {NoReq}
  /\ \A t \in Tasks : result[t] \in HwOutcomes \cup {NoResult}
  /\ \A t \in Tasks : out[t].kind \in {"none", "ok", "err", "panic"}
  /\ reads \in [Tasks -> Nat]
  /\ wrote \in [Tasks -> SUBSET GaugeNames]
  /\ solo \in {0} \cup Tasks
  /\ seen \subseteq Readings
  /\ workers \in 1..MaxWorkers
  /\ driver \in BOOLEAN
  /\ ready \in BOOLEAN
  /\ Cardinality(Running(pc)) <= workers
  /\ (Running(pc) = {} /\ mainpc # "err_accept") => driver
  /\ mainpc = "err_accept" => ~driver
  /\ driver => (~ready /\ IdleWorker(pc))
  /\ ready => mainpc = "accept"

\* ================================================================ claims

\* C1: at most one hardware read transaction is in flight at any time; a
\* task between taking the guard and dropping it is the holder of the
\* lock, and a transaction in flight belongs to the holder of the lock.
C1_OneTransactionAtATime ==
  /\ Cardinality(hw) <= 1
  /\ \A t \in Tasks :
       /\ pc[t] \in {"locked", "reading", "readend"} => lock = t
       /\ t \in hw => (lock = t /\ pc[t] = "reading")

\* a transaction is in flight while another scrape waits for the lock
C1_Witness ==
  \E t, u \in Tasks : t # u /\ t \in hw /\ lock = t /\ pc[u] = "lock"

\* C2: a GET /metrics request whose hardware read failed gets a response
\* with a 5xx status from the handler (the original claim).
C2_FailedReadGets5xx ==
  \A t \in Tasks :
    (pc[t] = "ready" /\ result[t].kind = "err") =>
      (out[t].kind = "ok" /\ out[t].status \in 500..599)

\* C3: a request whose (method, path) is not (GET, "/metrics") ends with
\* status 404 and an empty body.
C3_OtherRequestsGet404 ==
  \A t \in Tasks :
    (pc[t] = "ready" /\ ~(req[t].method = "GET" /\ req[t].path = MetricsPath))
      => (out[t].kind = "ok" /\ out[t].status = 404 /\ out[t].body = <<>>)

\* a POST on /metrics and a GET on "/metrics/" both answered with 404
C3_Witness ==
  \E t, u \in Tasks :
    /\ pc[t] = "ready" /\ req[t].method = "POST" /\ req[t].path = MetricsPath
    /\ out[t].kind = "ok" /\ out[t].status = 404
    /\ pc[u] = "ready" /\ req[u].method = "GET"
    /\ req[u].path = MetricsPath \o <<"/">>
    /\ out[u].kind = "ok" /\ out[u].status = 404

\* C4: a 200 response is produced only for a request whose own hardware
\* read succeeded and which has set all three gauges before its body was
\* encoded; a request whose read failed never has a 200 response.
C4_OkOnlyAfterOwnRead ==
  \A t \in Tasks :
    /\ (out[t].kind = "ok" /\ out[t].status = 200) =>
         (result[t].kind = "ok" /\ reads[t] = 1 /\ wrote[t] = GaugeNames)
    /\ pc[t] = "encode" => (result[t].kind = "ok" /\ wrote[t] = GaugeNames)
    /\ result[t].kind = "err" => ~(out[t].kind = "ok" /\ out[t].status = 200)

\* one request has its 200 response while another ended with a failed read
C4_Witness ==
  \E t, u \in Tasks :
    /\ pc[t] = "ready" /\ out[t].kind = "ok" /\ out[t].status = 200
    /\ pc[u] = "ready" /\ result[u].kind = "err"

\* C5: no step of a request whose hardware read failed changes a gauge, and
\* such a request has set no gauge.
C5_FailedReadKeepsGauges ==
  [][\A t \in Tasks :
       (result'[t].kind = "err" /\ pc'[t] # pc[t]) =>
         (gauges' = gauges /\ wrote'[t] = {})]_vars

\* a failed request has ended while the gauges hold an earlier reading
C5_Witness ==
  \E t \in Tasks : \E m \in Readings :
    /\ pc[t] = "ready" /\ result[t].kind = "err" /\ out[t].kind = "err"
    /\ gauges = [temperature |-> m.temperature, pressure |-> m.pressure,
                 humidity |-> m.humidity]

\* C6: a request whose hardware read failed does not hold the lock once
\* measure has returned, and the lock is free or held by a task that is
\* between taking the guard and dropping it.
C6_LockReleasedOnFailure ==
  /\ \A t \in Tasks :
       (result[t].kind = "err" /\ pc[t] \in {"measured", "ready"}) => lock # t
  /\ lock # 0 => pc[lock] \in {"locked", "reading", "readend"}
  /\ \A t \in Tasks : (pc[t] = "lock" /\ lock = 0) => ENABLED Lock(t)

\* after the failure of one request another task reads under the lock
C6_Witness ==
  \E t, u \in Tasks :
    /\ t # u
    /\ result[t].kind = "err" /\ pc[t] = "ready"
    /\ lock = u /\ pc[u] = "reading"

\* C7: when no scrape is between the end of its hardware read and the end
\* of its gauge writes, every gauge holds the field of the latest
\* successful hardware read (the original claim).
C7_GaugesHoldLatestRead ==
  ( /\ lastRead.kind = "ok"
    /\ \A t \in Tasks :
         ~(result[t].kind = "ok" /\
           pc[t] \in {"readend", "measured", "set_temperature",
                      "set_pressure", "set_humidity"}) )
  => /\ gauges.temperature = lastRead.m.temperature
     /\ gauges.pressure = lastRead.m.pressure
     /\ gauges.humidity = lastRead.m.humidity

\* C8: the body of the 200 response of a scrape that met no other scrape
\* lists exactly the three values of the scrape's own hardware read.
C8_SoloBodyMatchesOwnRead ==
  \A t \in Tasks :
    (pc[t] = "ready" /\ solo = t /\ out[t].kind = "ok" /\ out[t].status = 200)
      => /\ result[t].kind = "ok"
         /\ Len(out[t].body) = 3
         /\ \E i \in 1..3 :
              /\ out[t].body[i].name = "meter_temperature_celsius"
              /\ out[t].body[i].value = result[t].m.temperature
         /\ \E i \in 1..3 :
              /\ out[t].body[i].name = "meter_pressure_pascals"
              /\ out[t].body[i].value = result[t].m.pressure
         /\ \E i \in 1..3 :
              /\ out[t].body[i].name = "meter_humidity_percent"
              /\ out[t].body[i].value = result[t].m.humidity

\* two scrapes, one after the other, with different readings and different
\* bodies
C8_Witness ==
  \E t, u \in Tasks :
    /\ t # u /\ solo = t
    /\ pc[t] = "ready" /\ out[t].kind = "ok" /\ out[t].status = 200
    /\ pc[u] = "ready" /\ out[u].kind = "ok" /\ out[u].status = 200
    /\ result[u].m # result[t].m
    /\ out[u].body # out[t].body
    /\ \E i \in 1..3 : out[u].body[i].value = result[u].m.pressure

\* C9: the listener is bound, a connection task exists and a hardware read
\* happens only when the sensor handle was opened and initialised; when the
\* open or the init failed, main has returned, nothing is bound, no task
\* exists, no read has happened and nothing of it can happen any more.
C9_ServeOnlyAfterInit ==
  /\ ( \/ listener
       \/ mainpc \in {"bind", "accept", "err_bind", "err_accept"}
       \/ \E t \in Tasks : pc[t] # "none" \/ reads[t] > 0
       \/ hw # {}
       \/ lastRead # NoResult ) => sensorInit
  /\ mainpc \in {"err_open", "err_init"} =>
       /\ ~sensorInit /\ ~listener /\ hw = {} /\ lastRead = NoResult
       /\ \A t \in Tasks : pc[t] = "none" /\ reads[t] = 0
       /\ ~ENABLED Bind
       /\ \A t \in Tasks : ~ENABLED Accept(t) /\ ~ENABLED HwStart(t)

\* the init of the sensor failed and main returned the error
C9_Witness == mainpc = "err_init" /\ ~sensorInit /\ ~listener

\* C10: a GET /metrics request starts exactly one hardware read: never a
\* second one, and one has been started when the read is in flight or over.
C10_OneReadPerRequest ==
  \A t \in Tasks :
    /\ reads[t] <= 1
    /\ ( \/ pc[t] \in {"reading", "readend", "measured", "set_temperature",
                       "set_pressure", "set_humidity", "encode"}
         \/ ( /\ pc[t] = "ready"
              /\ req[t].method = "GET" /\ req[t].path = MetricsPath ) )
       => reads[t] = 1
    /\ (pc[t] = "ready" /\ result[t].kind = "err") => reads[t] = 1

\* a request ended after a failed read, with its one read
C10_Witness ==
  \E t \in Tasks : pc[t] = "ready" /\ result[t].kind = "err" /\ reads[t] = 1

\* C11: a GET /metrics request whose serialization failed ends with a 5xx
\* response, and no call panics (the original claim).
C11_EncodeFailureGets5xx ==
  \A t \in Tasks :
    /\ out[t].kind # "panic"
    /\ ( /\ pc[t] = "ready" /\ wrote[t] = GaugeNames
         /\ ~(out[t].kind = "ok" /\ out[t].status = 200) )
       => (out[t].kind = "ok" /\ out[t].status \in 500..599)

\* C12: a task sets the gauges and encodes them when it no longer holds the
\* sensor lock, and nothing keeps another task from setting a gauge or
\* encoding between two of its writes.
C12_GaugeWritesOutsideLock ==
  /\ \A t \in Tasks :
       pc[t] \in {"set_temperature", "set_pressure", "set_humidity", "encode"}
         => lock # t
  /\ \A t, u \in Tasks :
       (t # u /\ pc[t] \in {"set_pressure", "set_humidity"}) =>
         /\ pc[u] = "encode" => ENABLED EncodeBody(u)
         /\ pc[u] = "set_temperature" => ENABLED SetTemperature(u)
         /\ pc[u] = "set_humidity" => ENABLED SetHumidity(u)

\* two concurrent successful scrapes with different readings: the gauges,
\* and the 200 body encoded from them, have the temperature of one read and
\* the humidity of the other
C12_Witness ==
  \E t, u \in Tasks : \E i, j \in 1..3 :
    /\ t # u
    /\ result[t].kind = "ok" /\ result[u].kind = "ok"
    /\ result[t].m # result[u].m
    /\ gauges.temperature = result[t].m.temperature
    /\ gauges.humidity = result[u].m.humidity
    /\ pc[u] = "ready" /\ out[u].kind = "ok" /\ out[u].status = 200
    /\ out[u].body[i].name = "meter_temperature_celsius"
    /\ out[u].body[i].value = result[t].m.temperature
    /\ out[u].body[j].name = "meter_humidity_percent"
    /\ out[u].body[j].value = result[u].m.humidity

\* C13 as stated: with the fairness of FairSpec every GET /metrics request
\* that has entered call reaches the end of call, where its outcome is
\* fixed; no request waits for the sensor lock forever.
C13_EveryScrapeEnds ==
  \A t \in Tasks : (pc[t] \in ScrapePcs) ~> (pc[t] = "ready")

\* C13, amended: with the fairness of FairSpec every GET /metrics request
\* that has got the sensor lock reaches the end of call, and while a request
\* waits for the lock some request gets it again and again: the guard is
\* always dropped and no state is a deadlock.  Which of the waiting
\* requests gets the lock is not promised.
C13_NoLockDeadlock ==
  /\ \A t \in Tasks : (pc[t] \in ScrapePcs \ {"lock"}) ~> (pc[t] = "ready")
  /\ \A t \in Tasks : (pc[t] = "lock") ~> (\E u \in Tasks : pc[u] = "locked")

\* a request waits for the lock that a request with a failed read holds
C13_Witness ==
  \E t, u \in Tasks :
    /\ pc[t] = "lock" /\ lock = u
    /\ pc[u] = "readend" /\ result[u].kind = "err"

\* C14: a disconnect of the client during a scrape changes nothing of the
\* scrape: the task stays where it is, the lock, the transaction in flight
\* and the gauges are untouched.  A task whose client has gone holds the
\* lock only between taking the guard and dropping it, its read can end
\* and its guard can be dropped, and they are: the read runs to its end and
\* the lock is released.  At the end only the response is discarded.
C14_DisconnectDoesNotCancel ==
  /\ [][\A t \in Tasks :
          /\ (conn[t] /\ ~conn'[t] /\ pc[t] \in ScrapePcs) =>
               /\ pc' = pc /\ lock' = lock /\ hw' = hw /\ gauges' = gauges
               /\ result' = result /\ reads' = reads
          /\ (~conn[t] /\ pc[t] = "ready" /\ pc'[t] # "ready") =>
               (pc'[t] = "none" /\ lock' = lock /\ hw' = hw)]_vars
  /\ [](\A t \in Tasks :
          ~conn[t] =>
            /\ lock = t => pc[t] \in {"locked", "reading", "readend"}
            /\ t \in hw => pc[t] = "reading"
            /\ pc[t] = "reading" => ENABLED HwEnd(t)
            /\ pc[t] = "readend" => ENABLED Unlock(t))
  /\ \A t \in Tasks :
       (~conn[t] /\ pc[t] \in {"locked", "reading", "readend"})
         ~> (lock # t /\ t \notin hw /\ pc[t] \notin {"locked", "reading"})

\* the client has gone while its request is in the middle of the read
C14_Witness ==
  \E t \in Tasks : ~conn[t] /\ pc[t] = "reading" /\ t \in hw /\ lock = t

\* C15: request handling never blocks the accept loop: in the states where
\* a connection task performs a hardware read, too, main in its accept loop
\* can accept a connection for every task that does not exist yet; stated
\* for the states in which a worker thread of the runtime is idle.
C15_AcceptLoopNeverBlocked ==
  ( /\ mainpc = "accept"
    /\ IdleWorker(pc)
    /\ \E u \in Tasks : pc[u] = "reading" /\ u \in hw )
    => \A t \in Tasks : pc[t] = "none" => ENABLED Accept(t)

\* C16: the step that gives a request its 404 response is the first step of
\* its call and changes neither the lock, the sensor nor a gauge; a request
\* with a 404 response has taken no lock, started no hardware read and set
\* no gauge.
C16_NotFoundTouchesNothing ==
  /\ [][\A t \in Tasks :
          ( /\ pc'[t] = "ready" /\ pc[t] # "ready"
            /\ out'[t].kind = "ok" /\ out'[t].status = 404 ) =>
            /\ pc[t] = "polled"
            /\ lock' = lock /\ hw' = hw /\ lastRead' = lastRead
            /\ gauges' = gauges]_vars
  /\ [](\A t \in Tasks :
          (out[t].kind = "ok" /\ out[t].status = 404) =>
            /\ pc[t] = "ready" /\ lock # t /\ t \notin hw
            /\ reads[t] = 0 /\ wrote[t] = {} /\ result[t] = NoResult)

\* a request got its 404 while another task holds the lock for its read and
\* the gauges hold an earlier reading
C16_Witness ==
  \E t, u \in Tasks : \E m \in Readings :
    /\ pc[t] = "ready" /\ out[t].kind = "ok" /\ out[t].status = 404
    /\ lock = u /\ pc[u] = "reading"
    /\ gauges.temperature = m.temperature /\ gauges.pressure = m.pressure
    /\ gauges.humidity = m.humidity

\* C17: every value in the body of a 200 response is the field of its kind
\* of a successful hardware read that had ended when the body was encoded,
\* never the default 0 of a gauge that was not set; every gauge holds its
\* default or such a field, and only a task whose own read succeeded has
\* set a gauge.
C17_BodyValuesAreMeasured ==
  /\ [][\A t \in Tasks :
          ( /\ pc[t] = "encode" /\ pc'[t] = "ready"
            /\ out'[t].kind = "ok" /\ out'[t].status = 200 ) =>
            \A i \in 1..Len(out'[t].body) :
              /\ out'[t].body[i].value # 0
              /\ \E m \in seen :
                   \/ /\ out'[t].body[i].name = "meter_temperature_celsius"
                      /\ out'[t].body[i].value = m.temperature
                   \/ /\ out'[t].body[i].name = "meter_pressure_pascals"
                      /\ out'[t].body[i].value = m.pressure
                   \/ /\ out'[t].body[i].name = "meter_humidity_percent"
                      /\ out'[t].body[i].value = m.humidity]_vars
  /\ [](/\ \A t \in Tasks : wrote[t] # {} => result[t].kind = "ok"
        /\ gauges.temperature = 0 \/ \E m \in seen :
             gauges.temperature = m.temperature
        /\ gauges.pressure = 0 \/ \E m \in seen : gauges.pressure = m.pressure
        /\ gauges.humidity = 0 \/ \E m \in seen : gauges.humidity = m.humidity
        /\ \A t \in Tasks :
             (out[t].kind = "ok" /\ out[t].status = 200) =>
               /\ Len(out[t].body) = 3
               /\ \A i \in 1..3 : out[t].body[i].value # 0)

\* a 200 body with values of two reads, encoded after both had ended, while
\* another request's read has failed
C17_Witness ==
  \E t, u \in Tasks : \E m1, m2 \in seen : \E i, j \in 1..3 :
    /\ m1 # m2
    /\ pc[t] = "ready" /\ out[t].kind = "ok" /\ out[t].status = 200
    /\ out[t].body[i].value = m1.pressure
    /\ out[t].body[j].value = m2.humidity
    /\ result[u].kind = "err" /\ wrote[u] = {}

====
